---- MODULE Spec2Model ----
(***************************************************************************)
(* Model of socketController.js: the presence map, the map of active      *)
(* games and the seven socket event handlers (register_user, get_users,   *)
(* send_challenge, accept_challenge, set_secret_code, submit_guess,       *)
(* disconnect), with the feedback function calculateFeedback.             *)
(*                                                                         *)
(* Node runs one handler at a time, so every handler is one atomic action. *)
(* The variable ev holds the event the last step handled and out the       *)
(* messages that handler emitted, in emission order.                       *)
(***************************************************************************)
EXTENDS Integers, Sequences, FiniteSets, TLC

VARIABLES onlineUsers, activeGames, closed, now, ev, out

vars == <<onlineUsers, activeGames, closed, now, ev, out>>

----------------------------------------------------------------------------
(* Values *)

\* A socket id is a string; it is kept as a sequence of tokens so that the
\* template string that builds a gameId can be modelled as a concatenation.
Sockets == {<<"a">>, <<"b">>, <<"c">>}

\* JSON values carried by secretCode and guess: null or an array of numbers.
Null == [kind |-> "null", items |-> <<>>]

Arr(s) == [kind |-> "array", items |-> s]

\* JavaScript truthiness: null is falsy, every array (also the empty one) is truthy.
Truthy(v) == v.kind = "array"

\* The attempt budget of a row.
MaxAttempts == 10

\* The value calculateFeedback writes over a consumed position.
Consumed == 0 - 1

\* indexOf's "not found" (positions are 1-based here, 0-based in the code).
NotFound == 0

SecretsNotReady == "I codici segreti non sono ancora stati entrambi impostati"

AttemptsExhausted == "Hai gia esaurito tutti i tentativi"

\* io.emit(...) addresses every connected socket.
Everyone == <<"*">>

----------------------------------------------------------------------------
(* calculateFeedback *)

Fill(n, label) == [i \in 1..n |-> label]

\* First loop: a position where secret and guess agree gives one black peg
\* and is overwritten with -1 in both copies.
RECURSIVE ExactPass(_, _, _, _)
ExactPass(secretCopy, guessCopy, i, black) ==
    IF i > Len(secretCopy)
    THEN [secretCopy |-> secretCopy, guessCopy |-> guessCopy, black |-> black]
    ELSE IF i <= Len(guessCopy) /\ secretCopy[i] = guessCopy[i]
         THEN ExactPass([secretCopy EXCEPT ![i] = Consumed],
                        [guessCopy EXCEPT ![i] = Consumed], i + 1, black + 1)
         ELSE ExactPass(secretCopy, guessCopy, i + 1, black)

\* Array.prototype.indexOf: the lowest position holding val.
IndexOf(arr, val) ==
    IF \E i \in 1..Len(arr) : arr[i] = val
    THEN CHOOSE i \in 1..Len(arr) : arr[i] = val /\ \A j \in 1..(i - 1) : arr[j] # val
    ELSE NotFound

\* Mutation: the second loop does not skip the positions marked -1.
RECURSIVE ColorPassNoSkip(_, _, _, _)
ColorPassNoSkip(secretCopy, guessCopy, i, white) ==
    IF i > Len(secretCopy)
    THEN white
    ELSE IF IndexOf(guessCopy, secretCopy[i]) # NotFound
         THEN ColorPassNoSkip(secretCopy,
                        [guessCopy EXCEPT ![IndexOf(guessCopy, secretCopy[i])] = Consumed],
                        i + 1, white + 1)
         ELSE ColorPassNoSkip(secretCopy, guessCopy, i + 1, white)

\* Second loop: every secret value not equal to -1 looks for its first
\* occurrence in what is left of the guess; a hit gives one white peg.
RECURSIVE ColorPass(_, _, _, _)
ColorPass(secretCopy, guessCopy, i, white) ==
    IF i > Len(secretCopy)
    THEN white
    ELSE IF secretCopy[i] # Consumed /\ IndexOf(guessCopy, secretCopy[i]) # NotFound
         THEN ColorPass(secretCopy,
                        [guessCopy EXCEPT ![IndexOf(guessCopy, secretCopy[i])] = Consumed],
                        i + 1, white + 1)
         ELSE ColorPass(secretCopy, guessCopy, i + 1, white)

\* Mutation: the second loop reads the codes, not the marked copies.
calculateFeedbackUnmarked(secret, guess) ==
    LET exact == ExactPass(secret, guess, 1, 0)
        white == ColorPass(secret, guess, 1, 0)
    IN  Fill(exact.black, "black") \o Fill(white, "white")

calculateFeedback(secret, guess) ==
    LET exact == ExactPass(secret, guess, 1, 0)
        white == ColorPass(exact.secretCopy, exact.guessCopy, 1, 0)
    IN  Fill(exact.black, "black") \o Fill(white, "white")

\* guess.every((val, idx) => val === targetSecret[idx])
IsWinOf(guess, targetSecret) ==
    \A idx \in 1..Len(guess) : idx <= Len(targetSecret) /\ guess[idx] = targetSecret[idx]

\* The spread [...x] and x.every throw a TypeError on null.
Throws(targetSecret, guess) == targetSecret.kind # "array" \/ guess.kind # "array"

----------------------------------------------------------------------------
(* The two Maps. A Map iterates in insertion order and set() on a present *)
(* key keeps the key's place, so each is a sequence of entries.           *)

MapHas(m, k) == \E i \in 1..Len(m) : m[i].key = k

MapIndex(m, k) == CHOOSE i \in 1..Len(m) : m[i].key = k

MapGet(m, k) == m[MapIndex(m, k)].value

MapSet(m, k, v) ==
    IF MapHas(m, k)
    THEN [m EXCEPT ![MapIndex(m, k)] = [key |-> k, value |-> v]]
    ELSE Append(m, [key |-> k, value |-> v])

MapDelete(m, k) == SelectSeq(m, LAMBDA e : e.key # k)

MapKeys(m) == {m[i].key : i \in 1..Len(m)}

MapValues(m) == [i \in 1..Len(m) |-> m[i].value]

\* `${challengerId}_${socket.id}_${Date.now()}`
GameIdOf(challengerId, socketId, t) ==
    challengerId \o <<"_">> \o socketId \o <<"_">> \o <<ToString(t)>>

\* Mutation: the two players change places.
NewGameSwapped(challengerId, socketId) ==
    [player1 |-> socketId, player2 |-> challengerId,
     secret1 |-> Null, secret2 |-> Null,
     guesses1 |-> <<>>, guesses2 |-> <<>>,
     bothCodesSet |-> FALSE]

NewGame(challengerId, socketId) ==
    [player1 |-> challengerId, player2 |-> socketId,
     secret1 |-> Null, secret2 |-> Null,
     guesses1 |-> <<>>, guesses2 |-> <<>>,
     bothCodesSet |-> FALSE]

Msg(to, event, data) == [to |-> to, event |-> event, data |-> data]

----------------------------------------------------------------------------
Init ==
    /\ onlineUsers = <<>>
    /\ activeGames = <<>>
    /\ closed = {}
    /\ now = 0
    /\ ev = [type |-> "none"]
    /\ out = <<>>

----------------------------------------------------------------------------
(* The handlers. s is the socket whose handler runs; a socket that has    *)
(* disconnected delivers no further events.                               *)

\* socket.on("register_user")
Register(s, username) ==
    /\ s \notin closed
    /\ onlineUsers' = MapSet(onlineUsers, s,
                             [username |-> username, socketId |-> s, status |-> "online"])
    /\ out' = <<Msg(Everyone, "users_list_update", MapValues(onlineUsers'))>>
    /\ ev' = [type |-> "register_user", socket |-> s, username |-> username]
    /\ UNCHANGED <<activeGames, closed, now>>

\* socket.on("get_users")
GetUsers(s) ==
    /\ s \notin closed
    /\ out' = <<Msg(s, "users_list_update", MapValues(onlineUsers))>>
    /\ ev' = [type |-> "get_users", socket |-> s]
    /\ UNCHANGED <<onlineUsers, activeGames, closed, now>>

\* socket.on("send_challenge")
SendChallenge(s, targetSocketId) ==
    /\ s \notin closed
    /\ out' = IF MapHas(onlineUsers, s) /\ MapHas(onlineUsers, targetSocketId)
              THEN <<Msg(targetSocketId, "challenge_received",
                         [username |-> MapGet(onlineUsers, s).username, socketId |-> s])>>
              ELSE <<>>
    /\ ev' = [type |-> "send_challenge", socket |-> s, targetSocketId |-> targetSocketId]
    /\ UNCHANGED <<onlineUsers, activeGames, closed, now>>

\* socket.on("accept_challenge"); t is the value Date.now() returns when it is read.
AcceptChallenge(s, challengerId, t) ==
    /\ s \notin closed
    /\ t >= now
    /\ ev' = [type |-> "accept_challenge", socket |-> s, challengerId |-> challengerId]
    /\ IF MapHas(onlineUsers, s) /\ MapHas(onlineUsers, challengerId)
       THEN LET gameId == GameIdOf(challengerId, s, t)
            IN  /\ activeGames' = MapSet(activeGames, gameId, NewGame(challengerId, s))
                /\ now' = t
                /\ out' = <<Msg(challengerId, "challenge_accepted",
                                [opponent |-> MapGet(onlineUsers, s).username,
                                 opponentSocketId |-> s,
                                 gameId |-> gameId, role |-> "player1"]),
                            Msg(s, "challenge_accepted",
                                [opponent |-> MapGet(onlineUsers, challengerId).username,
                                 opponentSocketId |-> challengerId,
                                 gameId |-> gameId, role |-> "player2"])>>
       ELSE /\ out' = <<>>
            /\ UNCHANGED <<activeGames, now>>
    /\ UNCHANGED <<onlineUsers, closed>>

\* Mutation: the participant check is gone.
NotParticipantSkipped(game, s) == FALSE

\* if (!isPlayer1 && !isPlayer2): the socket is neither player of the game.
NotParticipant(game, s) == game.player1 # s /\ game.player2 # s

\* if (game.secret1 && game.secret2)
BothCodes(game) == Truthy(game.secret1) /\ Truthy(game.secret2)

\* socket.on("set_secret_code")
SetSecretCode(s, gameId, secretCode) ==
    /\ s \notin closed
    /\ ev' = [type |-> "set_secret_code", socket |-> s, gameId |-> gameId]
    /\ IF ~MapHas(activeGames, gameId)
       THEN /\ out' = <<>>
            /\ UNCHANGED activeGames
       ELSE LET game == MapGet(activeGames, gameId)
                isPlayer1 == game.player1 = s
                isPlayer2 == game.player2 = s
                stored == IF isPlayer1
                          THEN [game EXCEPT !.secret1 = secretCode]
                          ELSE [game EXCEPT !.secret2 = secretCode]
                both == BothCodes(stored)
                opponentSocketId == IF isPlayer1 THEN game.player2 ELSE game.player1
            IN  IF NotParticipant(game, s)
                THEN /\ out' = <<>>
                     /\ UNCHANGED activeGames
                ELSE /\ activeGames' =
                            MapSet(activeGames, gameId,
                                   IF both THEN [stored EXCEPT !.bothCodesSet = TRUE]
                                           ELSE stored)
                     /\ out' = IF both
                               THEN <<Msg(game.player1, "both_codes_set", [gameId |-> gameId]),
                                      Msg(game.player2, "both_codes_set", [gameId |-> gameId])>>
                               ELSE <<Msg(opponentSocketId, "opponent_code_set",
                                          [gameId |-> gameId])>>
    /\ UNCHANGED <<onlineUsers, closed, now>>

\* Mutation: the bothCodesSet check is gone.
NotReadySkipped(game) == FALSE

\* if (!game.bothCodesSet)
NotReady(game) == ~game.bothCodesSet

\* Mutation: the row is held full one record late.
RowFullLate(guessesArray) == Len(guessesArray) > MaxAttempts

\* if (guessesArray.length >= 10)
RowFull(guessesArray) == Len(guessesArray) >= MaxAttempts

\* Mutation: the row is over only by a win.
GameOverOnWinOnly(guessesArray, isWin) == isWin

\* const gameOver = guessesArray.length >= 10 || isWin, after the push
GameOver(guessesArray, isWin) == Len(guessesArray) >= MaxAttempts \/ isWin

\* socket.on("submit_guess")
SubmitGuess(s, gameId, guess) ==
    /\ s \notin closed
    /\ ev' = [type |-> "submit_guess", socket |-> s, gameId |-> gameId]
    /\ IF ~MapHas(activeGames, gameId)
       THEN /\ out' = <<>>
            /\ UNCHANGED activeGames
       ELSE LET game == MapGet(activeGames, gameId)
                isPlayer1 == game.player1 = s
                isPlayer2 == game.player2 = s
                targetSecret == IF isPlayer1 THEN game.secret2 ELSE game.secret1
                guessesArray == IF isPlayer1 THEN game.guesses1 ELSE game.guesses2
                opponentSocketId == IF isPlayer1 THEN game.player2 ELSE game.player1
            IN  IF NotReady(game)
                THEN /\ out' = <<Msg(s, "guess_error",
                                     [gameId |-> gameId, error |-> SecretsNotReady])>>
                     /\ UNCHANGED activeGames
                ELSE IF NotParticipant(game, s)
                THEN /\ out' = <<>>
                     /\ UNCHANGED activeGames
                ELSE IF RowFull(guessesArray)
                THEN /\ out' = <<Msg(s, "guess_error",
                                     [gameId |-> gameId, error |-> AttemptsExhausted])>>
                     /\ UNCHANGED activeGames
                ELSE IF Throws(targetSecret, guess)
                THEN \* calculateFeedback throws before the push: the handler ends here
                     /\ out' = <<>>
                     /\ UNCHANGED activeGames
                ELSE LET feedback == calculateFeedback(targetSecret.items, guess.items)
                         guessData == [guess |-> guess, feedback |-> feedback]
                         pushed == Append(guessesArray, guessData)
                         isWin == IsWinOf(guess.items, targetSecret.items)
                         gameOver == GameOver(pushed, isWin)
                     IN  /\ activeGames' =
                                MapSet(activeGames, gameId,
                                       IF isPlayer1 THEN [game EXCEPT !.guesses1 = pushed]
                                                    ELSE [game EXCEPT !.guesses2 = pushed])
                         /\ out' =
                                <<Msg(s, "guess_feedback",
                                      [gameId |-> gameId, guessData |-> guessData,
                                       isWin |-> isWin, gameOver |-> gameOver]),
                                  Msg(opponentSocketId, "opponent_guess",
                                      [gameId |-> gameId, guessData |-> guessData])>>
                                \o (IF gameOver
                                    THEN <<Msg(opponentSocketId, "opponent_game_status",
                                               [gameId |-> gameId, opponentWon |-> isWin,
                                                opponentLost |->
                                                    ~isWin /\ Len(pushed) >= MaxAttempts])>>
                                    ELSE <<>>)
    /\ UNCHANGED <<onlineUsers, closed, now>>

\* The loop of the disconnect handler over activeGames.entries(): the notices
\* it emits, in iteration order, given the presence map after the delete.
RECURSIVE DisconnectNotices(_, _, _, _)
DisconnectNotices(games, i, s, users) ==
    IF i > Len(games)
    THEN <<>>
    ELSE LET gameId == games[i].key
             game == games[i].value
             opponentSocketId == IF game.player1 = s THEN game.player2 ELSE game.player1
         IN  (IF (game.player1 = s \/ game.player2 = s) /\ MapHas(users, opponentSocketId)
              THEN <<Msg(opponentSocketId, "opponent_disconnected", [gameId |-> gameId])>>
              ELSE <<>>)
             \o DisconnectNotices(games, i + 1, s, users)

\* Mutation: only the sessions s accepted are removed.
RemoveGamesOfAccepter(games, s) == SelectSeq(games, LAMBDA e : e.value.player2 # s)

\* Mutation: only the sessions s challenged in are removed.
RemoveGamesOfChallenger(games, s) == SelectSeq(games, LAMBDA e : e.value.player1 # s)

\* What the loop leaves in activeGames.
RemoveGamesOf(games, s) ==
    SelectSeq(games, LAMBDA e : ~(e.value.player1 = s \/ e.value.player2 = s))

\* socket.on("disconnect")
Disconnect(s) ==
    /\ s \notin closed
    /\ closed' = closed \cup {s}
    /\ ev' = [type |-> "disconnect", socket |-> s]
    /\ onlineUsers' = MapDelete(onlineUsers, s)
    /\ activeGames' = RemoveGamesOf(activeGames, s)
    /\ out' = (IF MapHas(onlineUsers, s)
               THEN <<Msg(Everyone, "users_list_update", MapValues(onlineUsers'))>>
               ELSE <<>>)
              \o DisconnectNotices(activeGames, 1, s, onlineUsers')
    /\ UNCHANGED now

----------------------------------------------------------------------------
(* The environment: which events arrive. E names the sockets that send,   *)
(* the payloads they send and the caps that keep the state space finite.  *)

\* The gameIds a client names: those of the sessions in the store and ids
\* that may name no session (never issued, or of a session since removed).
GameIds(E) == MapKeys(activeGames) \cup E.otherIds

\* The row a guess of s in gameId would be appended to.
RowOf(s, gameId) ==
    LET game == MapGet(activeGames, gameId)
    IN  IF game.player1 = s THEN game.guesses1 ELSE game.guesses2

\* A player of a session with both secrets committed stops guessing once
\* its row holds maxRow records.
MayGuess(E, s, gameId) ==
    IF MapHas(activeGames, gameId)
    THEN LET game == MapGet(activeGames, gameId)
         IN  (game.bothCodesSet /\ s \in {game.player1, game.player2})
                => Len(RowOf(s, gameId)) < E.maxRow
    ELSE TRUE

\* A new session is opened only while fewer than maxGames are in the store.
MayAccept(E, s, challengerId, t) ==
    IF MapHas(onlineUsers, s) /\ MapHas(onlineUsers, challengerId)
    THEN IF MapHas(activeGames, GameIdOf(challengerId, s, t))
         THEN TRUE
         ELSE Len(activeGames) < E.maxGames
    ELSE TRUE

NextWith(E) ==
    \/ \E s \in E.sockets, username \in E.names : Register(s, username)
    \/ \E s \in E.viewers : GetUsers(s)
    \/ \E s \in E.inviters, targetSocketId \in E.invitees : SendChallenge(s, targetSocketId)
    \/ \E s \in E.accepters, challengerId \in E.challengers, t \in 0..E.maxClock :
          MayAccept(E, s, challengerId, t) /\ AcceptChallenge(s, challengerId, t)
    \/ \E s \in E.sockets, gameId \in GameIds(E), secretCode \in E.secrets :
          SetSecretCode(s, gameId, secretCode)
    \/ \E s \in E.sockets, gameId \in GameIds(E), guess \in E.guesses :
          MayGuess(E, s, gameId) /\ SubmitGuess(s, gameId, guess)
    \/ \E s \in E.sockets : Disconnect(s)

----------------------------------------------------------------------------
(* Spec: the lobby. Three sockets register, challenge, accept, commit     *)
(* secrets and disconnect; up to MaxGames sessions live side by side.      *)

MaxGames == 2

Lobby ==
    [sockets |-> Sockets, challengers |-> {<<"a">>, <<"b">>}, accepters |-> Sockets,
     viewers |-> {<<"a">>}, inviters |-> {<<"a">>}, invitees |-> {<<"b">>, <<"c">>},
     otherIds |-> {},
     names |-> {"ann"},
     secrets |-> {Arr(<<1, 2>>)},
     guesses |-> {Arr(<<2, 1>>)},
     maxGames |-> MaxGames, maxRow |-> 0, maxClock |-> 0]

Next == NextWith(Lobby)

Spec == Init /\ [][Next]_vars

----------------------------------------------------------------------------
(* SpecGame: one session between a (challenger) and b (accepter), with c   *)
(* as the outsider, and the payloads that tell the outcomes apart.         *)

GameRow == 2

Game ==
    [sockets |-> Sockets, challengers |-> {<<"a">>}, accepters |-> {<<"b">>},
     viewers |-> {<<"a">>}, inviters |-> {<<"a">>}, invitees |-> {<<"b">>, <<"c">>},
     otherIds |-> {GameIdOf(<<"a">>, <<"b">>, 0)},
     names |-> {"ann"},
     secrets |-> {Null, Arr(<<1, 2>>)},
     guesses |-> {Arr(<<>>), Arr(<<1, 2>>), Arr(<<2, 2>>)},
     maxGames |-> 1, maxRow |-> GameRow, maxClock |-> 0]

NextGame == NextWith(Game)

SpecGame == Init /\ [][NextGame]_vars

----------------------------------------------------------------------------
(* SpecRow: one session played to the end of both rows.                    *)

Row ==
    [sockets |-> Sockets, challengers |-> {<<"a">>}, accepters |-> {<<"b">>},
     viewers |-> {<<"a">>}, inviters |-> {<<"a">>}, invitees |-> {<<"b">>, <<"c">>},
     otherIds |-> {GameIdOf(<<"a">>, <<"b">>, 0)},
     names |-> {"ann"},
     secrets |-> {Arr(<<1, 2>>)},
     guesses |-> {Arr(<<2, 1>>)},
     maxGames |-> 1, maxRow |-> MaxAttempts + 1, maxClock |-> 0]

NextRow == NextWith(Row)

SpecRow == Init /\ [][NextRow]_vars

----------------------------------------------------------------------------
(* Vocabulary of the properties *)

\* The session stored under gameId.
Session(gameId) == MapGet(activeGames, gameId)

\* The row of socket s in a session, and the secret that row is played against.
OwnRow(game, s) == IF game.player1 = s THEN game.guesses1 ELSE game.guesses2

TargetSecret(game, s) == IF game.player1 = s THEN game.secret2 ELSE game.secret1

\* The last step handled the named event for a session that is in the store.
OnSession(type) == ev.type = type /\ MapHas(activeGames, ev.gameId)

\* The last step was a submit_guess that was accepted: the submitter got its result.
Accepted ==
    /\ ev.type = "submit_guess"
    /\ out # <<>>
    /\ out[1].event = "guess_feedback"

\* The last step answered the sender with the given guess-error and nothing else.
RefusedWith(error) ==
    out = <<Msg(ev.socket, "guess_error", [gameId |-> ev.gameId, error |-> error])>>

\* The last step opened (or re-opened) a session under gameId.
Opened(gameId) ==
    /\ ev.type = "accept_challenge"
    /\ out # <<>>
    /\ out[1].data.gameId = gameId

\* old is a prefix of new.
IsPrefix(old, new) ==
    /\ Len(old) <= Len(new)
    /\ \A i \in 1..Len(old) : new[i] = old[i]

----------------------------------------------------------------------------
(* C1 *)

\* Record i of the row of player in the session gameId was already there
\* before the step, or the step appended it: a submit_guess for gameId from
\* that player, with bothCodesSet true and fewer than 10 records in the row.
RecordJustified(gameId, player, old, new, i) ==
    \/ /\ MapHas(activeGames, gameId)
       /\ ~Opened(gameId)'
       /\ i <= Len(old)
       /\ new[i] = old[i]
    \/ /\ MapHas(activeGames, gameId)
       /\ ev'.type = "submit_guess"
       /\ ev'.gameId = gameId
       /\ ev'.socket = player
       /\ Session(gameId).bothCodesSet
       /\ Len(old) < MaxAttempts
       /\ i = Len(old) + 1
       /\ i = Len(new)

\* C1: a guess record is in a player's row only if a submit_guess of that
\* player, a participant of the session, appended it while bothCodesSet was
\* true and the row held fewer than 10 records.
C1_GuessOnlyWhenReady ==
    [][\A gameId \in MapKeys(activeGames') :
         LET new == MapGet(activeGames', gameId)
             old == IF MapHas(activeGames, gameId) THEN Session(gameId) ELSE new
         IN  /\ \A i \in 1..Len(new.guesses1) :
                    RecordJustified(gameId, new.player1, old.guesses1, new.guesses1, i)
             /\ \A i \in 1..Len(new.guesses2) :
                    RecordJustified(gameId, new.player2, old.guesses2, new.guesses2, i)]_vars

\* A guess of a participant has just been appended to its row.
C1_Witness ==
    /\ Accepted
    /\ MapHas(activeGames, ev.gameId)
    /\ Len(OwnRow(Session(ev.gameId), ev.socket)) >= 1

----------------------------------------------------------------------------
(* C2 *)

\* C2 (as claimed): in every session bothCodesSet is true exactly when both
\* secret slots are non-null.
C2_BothCodesSetIffNonNull ==
    \A gameId \in MapKeys(activeGames) :
        Session(gameId).bothCodesSet
            <=> (Session(gameId).secret1 # Null /\ Session(gameId).secret2 # Null)

\* The other half of C2: once bothCodesSet is true it stays true while the
\* session is in the store and is not opened anew.
C2_BothCodesSetMonotonic ==
    [][\A gameId \in MapKeys(activeGames) :
         (Session(gameId).bothCodesSet /\ MapHas(activeGames', gameId) /\ ~Opened(gameId)')
            => MapGet(activeGames', gameId).bothCodesSet]_vars

----------------------------------------------------------------------------
(* C3 *)

\* C3 (as claimed): the two players of every session are distinct sockets.
C3_DistinctParticipants ==
    \A gameId \in MapKeys(activeGames) :
        Session(gameId).player1 # Session(gameId).player2

----------------------------------------------------------------------------
(* C4 *)

----------------------------------------------------------------------------
(* C5 *)

\* C5 (as claimed): the result of an accepted guess has isWin true exactly
\* when the guess equals the opponent's secret, and gameOver true exactly
\* when isWin is true or the submitter's row now holds 10 records.
C5_WinIffEqual ==
    (Accepted /\ MapHas(activeGames, ev.gameId)) =>
        LET game == Session(ev.gameId)
            result == out[1].data
        IN  /\ result.isWin <=> result.guessData.guess = TargetSecret(game, ev.socket)
            /\ result.gameOver
                  <=> (result.isWin \/ Len(OwnRow(game, ev.socket)) = MaxAttempts)

----------------------------------------------------------------------------
(* C6 *)

\* The step handles a set_secret_code or submit_guess that names a session
\* of the store, sent by a socket that is neither of its players.
OutsiderStep ==
    /\ ev'.type \in {"set_secret_code", "submit_guess"}
    /\ MapHas(activeGames, ev'.gameId)
    /\ ev'.socket \notin {Session(ev'.gameId).player1, Session(ev'.gameId).player2}

\* C6 (as claimed): such an event is dropped silently: nothing is emitted
\* and no session changes.
C6_OutsiderSilent ==
    [][OutsiderStep => (out' = <<>> /\ activeGames' = activeGames)]_vars

\* C6 (amended): such an event changes no session, and nothing is emitted,
\* except that a submit_guess naming a session whose bothCodesSet is false
\* is answered with the SecretsNotReady guess-error to the sender.
C6_OutsiderChangesNothing ==
    [][OutsiderStep =>
         /\ activeGames' = activeGames
         /\ out' = IF ev'.type = "submit_guess" /\ ~Session(ev'.gameId).bothCodesSet
                   THEN <<Msg(ev'.socket, "guess_error",
                              [gameId |-> ev'.gameId, error |-> SecretsNotReady])>>
                   ELSE <<>>]_vars

\* An outsider's guess on a session with both secrets committed was dropped.
C6_Witness ==
    /\ OnSession("submit_guess")
    /\ ev.socket \notin {Session(ev.gameId).player1, Session(ev.gameId).player2}
    /\ Session(ev.gameId).bothCodesSet
    /\ out = <<>>

----------------------------------------------------------------------------
(* C7 *)

\* C7: a submit_guess for a session whose bothCodesSet is false is answered
\* with the SecretsNotReady guess-error to the submitter, and no row of any
\* session changes.
C7_SecretsNotReady ==
    [][(/\ ev'.type = "submit_guess"
        /\ MapHas(activeGames, ev'.gameId)
        /\ ~Session(ev'.gameId).bothCodesSet)
          => /\ out' = <<Msg(ev'.socket, "guess_error",
                             [gameId |-> ev'.gameId, error |-> SecretsNotReady])>>
             /\ activeGames' = activeGames]_vars

\* A player guessed before both secrets were committed and was refused.
C7_Witness ==
    /\ OnSession("submit_guess")
    /\ ev.socket = Session(ev.gameId).player1
    /\ ~Session(ev.gameId).bothCodesSet
    /\ RefusedWith(SecretsNotReady)

----------------------------------------------------------------------------
(* C8 *)

\* C8: a participant's guess (against a committed secret) on a row of 9
\* records is accepted and makes the row 10 long; on a row of 10 records it
\* is answered with the AttemptsExhausted guess-error to the submitter and
\* nothing else: no session changes and the opponent gets no message.
C8_TenthAcceptedThenRefused ==
    [][(/\ ev'.type = "submit_guess"
        /\ MapHas(activeGames, ev'.gameId)
        /\ Session(ev'.gameId).bothCodesSet
        /\ ev'.socket \in {Session(ev'.gameId).player1, Session(ev'.gameId).player2})
          => LET old == Session(ev'.gameId)
                 new == MapGet(activeGames', ev'.gameId)
                 s == ev'.socket
             IN  /\ (Len(OwnRow(old, s)) = MaxAttempts - 1 /\ Truthy(TargetSecret(old, s)))
                       => (Accepted' /\ Len(OwnRow(new, s)) = MaxAttempts)
                 /\ Len(OwnRow(old, s)) >= MaxAttempts
                       => /\ out' = <<Msg(s, "guess_error",
                                          [gameId |-> ev'.gameId,
                                           error |-> AttemptsExhausted])>>
                          /\ activeGames' = activeGames]_vars

\* An 11th attempt was refused.
C8_Witness ==
    /\ OnSession("submit_guess")
    /\ Len(OwnRow(Session(ev.gameId), ev.socket)) = MaxAttempts
    /\ RefusedWith(AttemptsExhausted)

----------------------------------------------------------------------------
(* C9 *)

\* C9: every row holds between 0 and 10 records, and while a session stays
\* in the store (it is not opened anew by accept_challenge) a step keeps the
\* records of its rows, in order, and at most appends to them.
C9_RowsBoundedAppendOnly ==
    [][\A gameId \in MapKeys(activeGames') :
         LET new == MapGet(activeGames', gameId)
         IN  /\ Len(new.guesses1) \in 0..MaxAttempts
             /\ Len(new.guesses2) \in 0..MaxAttempts
             /\ (MapHas(activeGames, gameId) /\ ~Opened(gameId)')
                   => /\ IsPrefix(Session(gameId).guesses1, new.guesses1)
                      /\ IsPrefix(Session(gameId).guesses2, new.guesses2)]_vars

\* Both rows of a session are full.
C9_Witness ==
    \E gameId \in MapKeys(activeGames) :
        /\ Len(Session(gameId).guesses1) = MaxAttempts
        /\ Len(Session(gameId).guesses2) = MaxAttempts

----------------------------------------------------------------------------
(* C10 *)

Players(game) == {game.player1, game.player2}

OpponentOf(game, s) == IF game.player1 = s THEN game.player2 ELSE game.player1

\* The sessions of the store that s plays in.
SessionsOf(s) == {gameId \in MapKeys(activeGames) : s \in Players(Session(gameId))}

\* The disconnect of s removes exactly the sessions s plays in.
RemovesSessionsOf(s) ==
    /\ \A gameId \in MapKeys(activeGames') : s \notin Players(MapGet(activeGames', gameId))
    /\ activeGames' = SelectSeq(activeGames, LAMBDA e : s \notin Players(e.value))

\* The positions of out' that hold an opponent-disconnected notice.
NoticesSent == {i \in 1..Len(out') : out'[i].event = "opponent_disconnected"}

\* C10 (as claimed): a disconnect removes every session of the socket,
\* leaves the others as they are, and every surviving opponent gets exactly
\* one opponent-disconnected notice.
C10_OneNoticePerOpponent ==
    [][ev'.type = "disconnect" =>
         /\ RemovesSessionsOf(ev'.socket)
         /\ \A gameId \in SessionsOf(ev'.socket) :
              LET opponent == OpponentOf(Session(gameId), ev'.socket)
              IN  opponent # ev'.socket
                    => Cardinality({i \in NoticesSent : out'[i].to = opponent}) = 1]_vars

\* C10 (amended): a disconnect removes every session of the socket, leaves
\* the others as they are, and sends exactly one opponent-disconnected
\* notice per removed session whose opponent is another socket, to that
\* opponent and naming that session; it sends no other such notice.
C10_OneNoticePerSession ==
    [][ev'.type = "disconnect" =>
         /\ RemovesSessionsOf(ev'.socket)
         /\ \A gameId \in SessionsOf(ev'.socket) :
              LET opponent == OpponentOf(Session(gameId), ev'.socket)
              IN  opponent # ev'.socket
                    => Cardinality({i \in NoticesSent :
                                      out'[i] = Msg(opponent, "opponent_disconnected",
                                                    [gameId |-> gameId])}) = 1
         /\ Cardinality(NoticesSent)
               = Cardinality({gameId \in SessionsOf(ev'.socket) :
                                OpponentOf(Session(gameId), ev'.socket) # ev'.socket})]_vars

\* A disconnect has sent two notices to one opponent, for two sessions.
C10_Witness ==
    /\ ev.type = "disconnect"
    /\ \E i, j \in 1..Len(out) :
          /\ i < j
          /\ out[i].event = "opponent_disconnected"
          /\ out[j].event = "opponent_disconnected"
          /\ out[i].to = out[j].to
          /\ out[i].data.gameId # out[j].data.gameId

----------------------------------------------------------------------------
(* C11 *)

\* The slot set_secret_code writes for socket s.
OwnSecret(game, s) == IF game.player1 = s THEN game.secret1 ELSE game.secret2

BothReadyNotices(game, gameId) ==
    <<Msg(game.player1, "both_codes_set", [gameId |-> gameId]),
      Msg(game.player2, "both_codes_set", [gameId |-> gameId])>>

\* C11 (as claimed): both_codes_set is sent only by the set_secret_code that
\* commits the second of the two secrets, the step in which bothCodesSet of
\* the named session turns from false to true; no other event sends it.
C11_ReadyNoticeOnlyOnSecondCommit ==
    [][(\E i \in 1..Len(out') : out'[i].event = "both_codes_set")
          => /\ ev'.type = "set_secret_code"
             /\ MapHas(activeGames, ev'.gameId)
             /\ ~Session(ev'.gameId).bothCodesSet
             /\ MapGet(activeGames', ev'.gameId).bothCodesSet]_vars

\* The part of C11 that holds: bothCodesSet of a session turns true only in
\* a set_secret_code step of one of its players whose own slot was null
\* while the opponent's was committed, and that step sends both_codes_set to
\* both players; a set_secret_code of a player that leaves a slot null sends
\* only opponent_code_set, to the opponent; both_codes_set is sent only by a
\* set_secret_code that leaves both slots committed.
C11_ReadyOnSecondCommit ==
    [][/\ \A gameId \in MapKeys(activeGames') :
            LET new == MapGet(activeGames', gameId)
            IN  (/\ new.bothCodesSet
                 /\ ~(MapHas(activeGames, gameId) /\ Session(gameId).bothCodesSet))
                   => /\ MapHas(activeGames, gameId)
                      /\ ev'.type = "set_secret_code"
                      /\ ev'.gameId = gameId
                      /\ ev'.socket \in {new.player1, new.player2}
                      /\ OwnSecret(Session(gameId), ev'.socket) = Null
                      /\ TargetSecret(Session(gameId), ev'.socket) # Null
                      /\ new.secret1 # Null /\ new.secret2 # Null
                      /\ out' = BothReadyNotices(new, gameId)
       /\ (/\ ev'.type = "set_secret_code"
           /\ MapHas(activeGames, ev'.gameId)
           /\ ev'.socket \in {Session(ev'.gameId).player1, Session(ev'.gameId).player2})
             => LET old == Session(ev'.gameId)
                    new == MapGet(activeGames', ev'.gameId)
                IN  (new.secret1 = Null \/ new.secret2 = Null)
                      => /\ out' = <<Msg(IF old.player1 = ev'.socket
                                         THEN old.player2 ELSE old.player1,
                                         "opponent_code_set", [gameId |-> ev'.gameId])>>
                         /\ new.bothCodesSet = old.bothCodesSet
       /\ (\E i \in 1..Len(out') : out'[i].event = "both_codes_set")
             => /\ ev'.type = "set_secret_code"
                /\ MapHas(activeGames', ev'.gameId)
                /\ MapGet(activeGames', ev'.gameId).secret1 # Null
                /\ MapGet(activeGames', ev'.gameId).secret2 # Null]_vars

\* The challenger has just committed the second secret: the session is
\* ready and both players are told.
C11_SecondCommit ==
    /\ OnSession("set_secret_code")
    /\ ev.socket = Session(ev.gameId).player1
    /\ Session(ev.gameId).bothCodesSet
    /\ Session(ev.gameId).guesses1 = <<>>
    /\ Session(ev.gameId).guesses2 = <<>>
    /\ out = BothReadyNotices(Session(ev.gameId), ev.gameId)

----------------------------------------------------------------------------
(* C12 *)

\* The rows of Row with one more input: a player whose row is nearly full
\* may also send the guess that equals the secret, so that a row ends by a
\* win as well as by the tenth miss.
LateGuess(s, gameId) ==
    IF MapHas(activeGames, gameId)
    THEN Len(RowOf(s, gameId)) >= MaxAttempts - 2
    ELSE FALSE

NextEnd ==
    \/ NextWith(Row)
    \/ \E s \in Row.sockets, gameId \in GameIds(Row) :
          /\ LateGuess(s, gameId)
          /\ MayGuess(Row, s, gameId)
          /\ SubmitGuess(s, gameId, Arr(<<1, 2>>))

SpecEnd == Init /\ [][NextEnd]_vars

\* C12: after an accepted guess, the row is over when the guess won or was
\* the tenth of the row. Then the handler sent exactly three messages: the
\* result to the submitter, opponent_guess to the opponent and after it one
\* opponent_game_status to the opponent, with opponentWon = isWin and
\* opponentLost true exactly for a tenth attempt that did not win, so
\* exactly one flag is true. Otherwise no opponent_game_status was sent.
C12_StatusNoticeWhenOver ==
    (Accepted /\ MapHas(activeGames, ev.gameId)) =>
        LET game == Session(ev.gameId)
            opponent == OpponentOf(game, ev.socket)
            result == out[1].data
            tenth == Len(OwnRow(game, ev.socket)) = MaxAttempts
            over == result.isWin \/ tenth
        IN  /\ result.gameOver = over
            /\ out[1].to = ev.socket
            /\ out[2] = Msg(opponent, "opponent_guess",
                            [gameId |-> ev.gameId, guessData |-> result.guessData])
            /\ IF over
               THEN /\ Len(out) = 3
                    /\ out[3].to = opponent
                    /\ out[3].to # ev.socket
                    /\ out[3].event = "opponent_game_status"
                    /\ out[3].data.gameId = ev.gameId
                    /\ out[3].data.opponentWon = result.isWin
                    /\ out[3].data.opponentLost = (tenth /\ ~result.isWin)
                    /\ out[3].data.opponentWon # out[3].data.opponentLost
               ELSE Len(out) = 2

\* A player has just missed with the tenth attempt, after the opponent's
\* row ended with a win: the opponent is told opponentLost.
C12_Witness ==
    /\ Accepted
    /\ MapHas(activeGames, ev.gameId)
    /\ Len(OwnRow(Session(ev.gameId), ev.socket)) = MaxAttempts
    /\ ~out[1].data.isWin
    /\ Len(out) = 3
    /\ out[3].data.opponentLost
    /\ LET other == OwnRow(Session(ev.gameId), OpponentOf(Session(ev.gameId), ev.socket))
       IN  /\ other # <<>>
           /\ other[Len(other)].feedback = <<"black", "black">>

----------------------------------------------------------------------------
(* C13 *)

\* C13: an accept_challenge opens a session exactly when the accepter and
\* the named challenger are both in onlineUsers. The session is stored under
\* the id made of challenger, accepter and clock, with player1 the
\* challenger, player2 the accepter, both secrets null, both rows empty and
\* bothCodesSet false; the other sessions stay as they are; the challenger
\* is told the id with role player1 and the accepter the same id with role
\* player2. Otherwise the store is unchanged and nothing is sent.
C13_AcceptOpensSession ==
    [][ev'.type = "accept_challenge" =>
         LET s == ev'.socket
             challengerId == ev'.challengerId
             gameId == GameIdOf(challengerId, s, now')
         IN  IF MapHas(onlineUsers, s) /\ MapHas(onlineUsers, challengerId)
             THEN /\ MapKeys(activeGames') = MapKeys(activeGames) \cup {gameId}
                  /\ MapGet(activeGames', gameId) =
                        [player1 |-> challengerId, player2 |-> s,
                         secret1 |-> Null, secret2 |-> Null,
                         guesses1 |-> <<>>, guesses2 |-> <<>>,
                         bothCodesSet |-> FALSE]
                  /\ \A other \in MapKeys(activeGames) \ {gameId} :
                        MapGet(activeGames', other) = Session(other)
                  /\ Len(out') = 2
                  /\ out'[1].to = challengerId
                  /\ out'[1].event = "challenge_accepted"
                  /\ out'[1].data.gameId = gameId
                  /\ out'[1].data.role = "player1"
                  /\ out'[1].data.opponentSocketId = s
                  /\ out'[2].to = s
                  /\ out'[2].event = "challenge_accepted"
                  /\ out'[2].data.gameId = gameId
                  /\ out'[2].data.role = "player2"
                  /\ out'[2].data.opponentSocketId = challengerId
             ELSE /\ activeGames' = activeGames
                  /\ out' = <<>>]_vars

\* A second session has just been opened between two different sockets.
C13_Witness ==
    /\ ev.type = "accept_challenge"
    /\ ev.socket # ev.challengerId
    /\ Len(out) = 2
    /\ Len(activeGames) = 2
    /\ MapHas(activeGames, out[1].data.gameId)
    /\ Session(out[1].data.gameId).player2 = ev.socket

----------------------------------------------------------------------------
(* Scoring: one session whose secrets are committed, the accepter's secret *)
(* being any code over the palette; the challenger sends one guess of the  *)
(* same length, and the accepter may commit another secret.                *)

CodeLen == 4

Palette == {1, 2, 3}

Codes == {Arr(c) : c \in UNION {[1..n -> Palette] : n \in 1..CodeLen}}

ScoreGame == GameIdOf(<<"a">>, <<"b">>, 0)

Recommitted == Arr(<<3, 3, 3, 3>>)

\* The state after a and b registered, b accepted a's challenge at clock 0,
\* a committed [1,1,2,3] and then b committed its code.
InitScore ==
    /\ onlineUsers =
          MapSet(MapSet(<<>>, <<"a">>,
                        [username |-> "ann", socketId |-> <<"a">>, status |-> "online"]),
                 <<"b">>, [username |-> "ann", socketId |-> <<"b">>, status |-> "online"])
    /\ \E code \in Codes :
          activeGames =
              MapSet(<<>>, ScoreGame,
                     [NewGame(<<"a">>, <<"b">>) EXCEPT !.secret1 = Arr(<<1, 1, 2, 3>>),
                                                       !.secret2 = code,
                                                       !.bothCodesSet = TRUE])
    /\ closed = {}
    /\ now = 0
    /\ ev = [type |-> "set_secret_code", socket |-> <<"b">>, gameId |-> ScoreGame]
    /\ out = <<Msg(<<"a">>, "both_codes_set", [gameId |-> ScoreGame]),
               Msg(<<"b">>, "both_codes_set", [gameId |-> ScoreGame])>>

\* The challenger guesses once, with a code as long as the secret it is
\* scored against.
MayScore(guess) ==
    /\ RowOf(<<"a">>, ScoreGame) = <<>>
    /\ Len(guess.items) = Len(MapGet(activeGames, ScoreGame).secret2.items)

NextScore ==
    \/ \E guess \in Codes : MayScore(guess) /\ SubmitGuess(<<"a">>, ScoreGame, guess)
    \/ SetSecretCode(<<"b">>, ScoreGame, Recommitted)

SpecScore == InitScore /\ [][NextScore]_vars

\* The number of pegs of one colour in a feedback.
Pegs(feedback, label) == Cardinality({i \in 1..Len(feedback) : feedback[i] = label})

----------------------------------------------------------------------------
(* C14 *)

\* The last step accepted the guess [1,2,2,2] against the secret [1,1,2,3].
ExampleScored ==
    /\ Accepted
    /\ MapHas(activeGames, ev.gameId)
    /\ TargetSecret(Session(ev.gameId), ev.socket) = Arr(<<1, 1, 2, 3>>)
    /\ out[1].data.guessData.guess = Arr(<<1, 2, 2, 2>>)

\* C14 (as claimed): for secret [1,1,2,3] and guess [1,2,2,2] the feedback
\* is one exact (black) peg and one color (white) peg.
C14_OneExactOneColor ==
    ExampleScored =>
        /\ Pegs(out[1].data.guessData.feedback, "black") = 1
        /\ Pegs(out[1].data.guessData.feedback, "white") = 1

\* C14 (amended): for secret [1,1,2,3] and guess [1,2,2,2] the feedback is
\* two exact (black) pegs, for positions 0 and 2, and no color (white) peg.
C14_TwoExactNoColor ==
    ExampleScored => out[1].data.guessData.feedback = <<"black", "black">>

C14_Witness ==
    /\ ExampleScored
    /\ Session(ev.gameId).guesses1 =
          <<[guess |-> Arr(<<1, 2, 2, 2>>), feedback |-> <<"black", "black">>]>>

----------------------------------------------------------------------------
(* C15 *)

\* The records of both rows of every session of the store.
StoredRecords ==
    UNION {{Session(gameId).guesses1[i] : i \in 1..Len(Session(gameId).guesses1)}
              \cup {Session(gameId).guesses2[i] : i \in 1..Len(Session(gameId).guesses2)} :
           gameId \in MapKeys(activeGames)}

\* C15: a guess of length L scored against a secret of length L gets
\* between 0 and L black pegs and at most L pegs in all, black before
\* white; so every stored record holds at most L pegs.
C15_PegsWithinLength ==
    \A record \in StoredRecords :
        LET L == Len(record.guess.items)
            black == Pegs(record.feedback, "black")
            white == Pegs(record.feedback, "white")
        IN  /\ black \in 0..L
            /\ black + white <= L
            /\ Len(record.feedback) = black + white
            /\ record.feedback = Fill(black, "black") \o Fill(white, "white")

\* A stored guess of full length with as many pegs as positions, of both colours.
C15_Witness ==
    \E record \in StoredRecords :
        /\ Len(record.guess.items) = CodeLen
        /\ Len(record.feedback) = CodeLen
        /\ Pegs(record.feedback, "black") > 0
        /\ Pegs(record.feedback, "white") > 0

----------------------------------------------------------------------------
(* C16 *)

\* gameId is the id of a session between two sockets of which one is among
\* the disconnected sockets gone.
Abandoned(gameId, gone) ==
    \E p \in Sockets, q \in Sockets, t \in 0..Row.maxClock :
        /\ gameId = GameIdOf(p, q, t)
        /\ {p, q} \cap gone # {}

\* C16: no session of the store has a disconnected player, whatever the
\* order of guesses and disconnects; and a set_secret_code or submit_guess
\* that names the id of a session with a disconnected player finds no
\* session: it changes neither map and sends nothing.
C16_AbandonedSessionNotFound ==
    [][/\ \A gameId \in MapKeys(activeGames') :
            /\ Players(MapGet(activeGames', gameId)) \cap closed' = {}
            /\ ~Abandoned(gameId, closed')
       /\ (ev'.type \in {"set_secret_code", "submit_guess"} /\ Abandoned(ev'.gameId, closed'))
             => /\ ~MapHas(activeGames, ev'.gameId)
                /\ activeGames' = activeGames
                /\ onlineUsers' = onlineUsers
                /\ out' = <<>>]_vars

\* After the challenger left, the accepter's guess for their session found
\* no session.
C16_Witness ==
    /\ ev.type = "submit_guess"
    /\ ev.socket = <<"b">>
    /\ ev.gameId = GameIdOf(<<"a">>, <<"b">>, 0)
    /\ <<"a">> \in closed
    /\ MapHas(onlineUsers, <<"b">>)
    /\ activeGames = <<>>
    /\ out = <<>>

----------------------------------------------------------------------------
(* C17 *)

\* The record was a win when it was scored: every position of the guess got
\* a black peg.
WasWin(record) == Pegs(record.feedback, "black") = Len(record.guess.items)

\* The row is over: its last record was a win or it holds 10 records.
RowEnded(row) ==
    /\ row # <<>>
    /\ (WasWin(row[Len(row)]) \/ Len(row) >= MaxAttempts)

\* C17 (as claimed): a submit_guess of a player whose row in the session is
\* over, by a win or by the tenth attempt, is not accepted: the row does not
\* grow and the player gets a guess_error.
C17_NoGuessAfterRowOver ==
    [][(/\ ev'.type = "submit_guess"
        /\ MapHas(activeGames, ev'.gameId)
        /\ ev'.socket \in Players(Session(ev'.gameId))
        /\ RowEnded(OwnRow(Session(ev'.gameId), ev'.socket)))
          => /\ activeGames' = activeGames
             /\ Len(out') = 1
             /\ out'[1].to = ev'.socket
             /\ out'[1].event = "guess_error"]_vars

----------------------------------------------------------------------------
(* C18 *)

\* C18 (as claimed): an accept_challenge that opens a session stores it
\* under an id no session of the store uses, so it replaces no session.
C18_FreshGameId ==
    [][(ev'.type = "accept_challenge" /\ out' # <<>>)
          => /\ ~MapHas(activeGames, out'[1].data.gameId)
             /\ Len(activeGames') = Len(activeGames) + 1]_vars

----------------------------------------------------------------------------
(* C19 *)

\* Every record of the row carries the feedback of its guess against secret.
RowConsistent(row, secret) ==
    \A i \in 1..Len(row) :
        /\ secret.kind = "array"
        /\ row[i].feedback = calculateFeedback(secret.items, row[i].guess.items)

\* C19 (as claimed): in every session every record of a player's row
\* carries the feedback calculateFeedback gives for its guess against the
\* opponent's secret now stored in the session.
C19_HistoryMatchesSecrets ==
    \A gameId \in MapKeys(activeGames) :
        /\ RowConsistent(Session(gameId).guesses1, Session(gameId).secret2)
        /\ RowConsistent(Session(gameId).guesses2, Session(gameId).secret1)

----------------------------------------------------------------------------
(* C20 *)

\* C20: in every state both players of every session of the store are in
\* onlineUsers and have not disconnected; so if either player disconnects
\* now, an opponent that is another socket is still in onlineUsers after
\* the handler's delete, and the onlineUsers.has test before the
\* opponent_disconnected notice passes.
C20_PlayersPresent ==
    \A i \in 1..Len(activeGames) :
        LET game == activeGames[i].value
        IN  \A p \in Players(game) :
                /\ MapHas(onlineUsers, p)
                /\ p \notin closed
                /\ OpponentOf(game, p) # p
                      => MapHas(MapDelete(onlineUsers, p), OpponentOf(game, p))

\* A socket has just disconnected: its opponent was told, and a session
\* between two other sockets is still in the store.
C20_Witness ==
    /\ ev.type = "disconnect"
    /\ Len(activeGames) = 1
    /\ \E i \in 1..Len(out) : out[i].event = "opponent_disconnected"
    /\ \A p \in Players(activeGames[1].value) : MapHas(onlineUsers, p)

====
